---- MODULE Spec2Model ----
(***************************************************************************)
(* A model of scrabble.py: the Board (place_word), the TileManager         *)
(* (draw_tiles) and the GameState turn coordinator (start_game,            *)
(* game_loop, player_turn).                                                *)
(*                                                                         *)
(* Three specifications share the variables:                               *)
(*   SpecBoard  a Board driven by arbitrary place_word calls,              *)
(*   SpecPool   a TileManager driven by arbitrary draw_tiles calls,        *)
(*   Spec       a GameState driven by console input.                       *)
(*                                                                         *)
(* Python lists are modelled with Python's indexing: an index in           *)
(* [-len, 0) wraps to the end of the list, an index outside [-len, len)    *)
(* raises IndexError.  A call therefore has three outcomes: it returns     *)
(* True, it returns False, or it raises IndexError.                        *)
(***************************************************************************)
EXTENDS Integers, Sequences, FiniteSets

\* board     Board._tiles
\* pool      TileManager.pool
\* players   GameState.players
\* pc        where the program is
\* last      the last operation: arguments, outcome, the state it started from
\* returned  every tile handed out by draw_tiles so far (SpecPool)
\* steps     the number of operations made so far
\* covered   every move placed so far played letters the hand held (Spec)
VARIABLES board, pool, players, pc, last, returned, steps, covered

vars == <<board, pool, players, pc, last, returned, steps, covered>>

(***************************************************************************)
(* Bounds.  The program's board is 15 x 15, its pool holds 98 tiles over   *)
(* 26 letters and the first hand is 7 tiles; the model scales them down.   *)
(***************************************************************************)
\* Board.size (15 in the program)
size == 2
\* longest word handed to place_word / typed by the player
MaxWordLen == 2
\* number of place_word calls made on one Board in SpecBoard
MaxCalls == 2
\* tiles of each letter in the pool (1..12 in the program)
TilesPerLetter == 2
\* largest argument of draw_tiles in SpecPool
MaxDraw == 3
\* number of draw_tiles calls made on one TileManager in SpecPool
MaxDraws == 3
\* tiles drawn by draw_player_tiles (7 in the program)
HandSize == 2
\* number of player_turn rounds of one game in Spec
MaxTurns == 2

\* the tile alphabet (A..Z in the program)
Letters == {"A", "B"}
\* the empty-cell marker of Board._tiles
Empty == "."

\* class Direction(IntEnum)
ACROSS == 1
DOWN == 2
Direction == {ACROSS, DOWN}

\* words over the tile alphabet, the empty word included
Words == UNION {[1..n -> Letters] : n \in 0..MaxWordLen}
\* start coordinates: one below the board, the board, one past the board
Coords == (-1)..size
Rows == 0..(size - 1)

(***************************************************************************)
(* Python list indexing on a list of length size.                          *)
(***************************************************************************)
PyIndexable(k) == -size <= k /\ k < size
PyIndex(k) == IF k < 0 THEN k + size ELSE k

(***************************************************************************)
(* Board                                                                   *)
(***************************************************************************)
\* Board.__init__: _tiles = [["."] * size for _ in range(size)]
EmptyBoard == [r \in Rows |-> [c \in Rows |-> Empty]]

\* Board.tile raises IndexError exactly when a list index is out of range
tile_raises(pos) == ~PyIndexable(pos[1]) \/ ~PyIndexable(pos[2])

\* Board.tile: self._tiles[row][col]
tile(b, pos) == b[PyIndex(pos[1])][PyIndex(pos[2])]

\* Board.set_tile: self._tiles[row][col] = tile
set_tile(b, pos, letter) ==
    [b EXCEPT ![PyIndex(pos[1])][PyIndex(pos[2])] = letter]

\* Board.in_bounds
in_bounds(pos) ==
    0 <= pos[1] /\ pos[1] < size /\ 0 <= pos[2] /\ pos[2] < size

\* Board.is_empty: in_bounds(pos) and tile(pos) == "."
is_empty(b, pos) == in_bounds(pos) /\ tile(b, pos) = Empty

\* Board.is_first_turn
is_first_turn(b) == \A r \in Rows : \A c \in Rows : b[r][c] = Empty

\* span_cell with the two directions exchanged
span_cell_swapped(start, direction, i) ==
    IF direction = ACROSS THEN <<start[1] + i, start[2]>>
    ELSE <<start[1], start[2] + i>>

\* the i-th cell (i = 0, 1, ...) of a span: (start[0], start[1] + i) for
\* ACROSS, (start[0] + i, start[1]) for DOWN
span_cell(start, direction, i) ==
    IF direction = ACROSS THEN <<start[1], start[2] + i>>
    ELSE <<start[1] + i, start[2]>>

\* the validation loops of place_word, from letter i on: "ok" when every
\* remaining letter passes, "False" at the first mismatch, "IndexError" when
\* the read of an occupied-or-outside cell raises first
RECURSIVE check_span(_, _, _, _, _)
check_span(b, word, start, direction, i) ==
    IF i > Len(word) THEN "ok"
    ELSE LET pos == span_cell(start, direction, i - 1) IN
         IF is_empty(b, pos) THEN check_span(b, word, start, direction, i + 1)
         ELSE IF tile_raises(pos) THEN "IndexError"
         ELSE IF tile(b, pos) # word[i] THEN "False"
         ELSE check_span(b, word, start, direction, i + 1)

\* the write loop of place_word, from letter i on
RECURSIVE write_span(_, _, _, _, _)
write_span(b, word, start, direction, i) ==
    IF i > Len(word) THEN b
    ELSE write_span(set_tile(b, span_cell(start, direction, i - 1), word[i]),
                    word, start, direction, i + 1)

\* place_word validating and writing in one pass: a mismatch found after
\* some letters were written leaves them on the board
RECURSIVE onepass_span(_, _, _, _, _)
onepass_span(b, word, start, direction, i) ==
    IF i > Len(word) THEN [result |-> "True", board |-> b]
    ELSE LET pos == span_cell(start, direction, i - 1) IN
         IF is_empty(b, pos)
           THEN onepass_span(set_tile(b, pos, word[i]), word, start, direction, i + 1)
         ELSE IF tile_raises(pos) THEN [result |-> "IndexError", board |-> b]
         ELSE IF tile(b, pos) # word[i] THEN [result |-> "False", board |-> b]
         ELSE onepass_span(b, word, start, direction, i + 1)

place_word_onepass(b, word, start, direction) ==
    IF direction = ACROSS /\ start[2] + Len(word) > size
      THEN [result |-> "False", board |-> b]
    ELSE IF direction = DOWN /\ start[1] + Len(word) > size
      THEN [result |-> "False", board |-> b]
    ELSE onepass_span(b, word, start, direction, 1)

\* place_word with the fit test off by one: start + len(word) - 1 > size
place_word_latefit(b, word, start, direction) ==
    IF direction = ACROSS /\ start[2] + Len(word) - 1 > size
      THEN [result |-> "False", board |-> b]
    ELSE IF direction = DOWN /\ start[1] + Len(word) - 1 > size
      THEN [result |-> "False", board |-> b]
    ELSE LET v == check_span(b, word, start, direction, 1) IN
         IF v = "ok"
           THEN [result |-> "True",
                 board |-> write_span(b, word, start, direction, 1)]
           ELSE [result |-> v, board |-> b]

\* place_word whose validation does not compare letters: an occupied cell
\* is overwritten
RECURSIVE check_span_nocompare(_, _, _, _, _)
check_span_nocompare(b, word, start, direction, i) ==
    IF i > Len(word) THEN "ok"
    ELSE LET pos == span_cell(start, direction, i - 1) IN
         IF ~is_empty(b, pos) /\ tile_raises(pos) THEN "IndexError"
         ELSE check_span_nocompare(b, word, start, direction, i + 1)

place_word_overwrite(b, word, start, direction) ==
    IF direction = ACROSS /\ start[2] + Len(word) > size
      THEN [result |-> "False", board |-> b]
    ELSE IF direction = DOWN /\ start[1] + Len(word) > size
      THEN [result |-> "False", board |-> b]
    ELSE LET v == check_span_nocompare(b, word, start, direction, 1) IN
         IF v = "ok"
           THEN [result |-> "True",
                 board |-> write_span(b, word, start, direction, 1)]
           ELSE [result |-> v, board |-> b]

\* place_word whose write loop stops one letter early
place_word_short(b, word, start, direction) ==
    IF direction = ACROSS /\ start[2] + Len(word) > size
      THEN [result |-> "False", board |-> b]
    ELSE IF direction = DOWN /\ start[1] + Len(word) > size
      THEN [result |-> "False", board |-> b]
    ELSE LET v == check_span(b, word, start, direction, 1) IN
         IF v = "ok"
           THEN [result |-> "True",
                 board |-> write_span(b, SubSeq(word, 1, Len(word) - 1),
                                      start, direction, 1)]
           ELSE [result |-> v, board |-> b]

\* place_word that rejects every span cell that is not empty
place_word_strict(b, word, start, direction) ==
    IF direction = ACROSS /\ start[2] + Len(word) > size
      THEN [result |-> "False", board |-> b]
    ELSE IF direction = DOWN /\ start[1] + Len(word) > size
      THEN [result |-> "False", board |-> b]
    ELSE IF \A i \in 1..Len(word) : is_empty(b, span_cell(start, direction, i - 1))
      THEN [result |-> "True",
            board |-> write_span(b, word, start, direction, 1)]
      ELSE [result |-> "False", board |-> b]

\* place_word that "rolls back" a rejected word by clearing its span
place_word_erase(b, word, start, direction) ==
    IF direction = ACROSS /\ start[2] + Len(word) > size
      THEN [result |-> "False", board |-> b]
    ELSE IF direction = DOWN /\ start[1] + Len(word) > size
      THEN [result |-> "False", board |-> b]
    ELSE LET v == check_span(b, word, start, direction, 1) IN
         IF v = "ok"
           THEN [result |-> "True",
                 board |-> write_span(b, word, start, direction, 1)]
         ELSE IF v = "False"
           THEN [result |-> v,
                 board |-> write_span(b, [i \in 1..Len(word) |-> Empty],
                                      start, direction, 1)]
           ELSE [result |-> v, board |-> b]

\* Board.place_word: the outcome and the board it leaves
place_word(b, word, start, direction) ==
    IF direction = ACROSS /\ start[2] + Len(word) > size
      THEN [result |-> "False", board |-> b]
    ELSE IF direction = DOWN /\ start[1] + Len(word) > size
      THEN [result |-> "False", board |-> b]
    ELSE LET v == check_span(b, word, start, direction, 1) IN
         IF v = "ok"
           THEN [result |-> "True",
                 board |-> write_span(b, word, start, direction, 1)]
           ELSE [result |-> v, board |-> b]

(***************************************************************************)
(* The record of the last operation: its arguments, its outcome and the    *)
(* state it started from.                                                  *)
(***************************************************************************)
NoCall ==
    [op |-> "none", word |-> <<>>, start |-> <<0, 0>>, direction |-> 0,
     token |-> "", num |-> 0, result |-> "none", drawn |-> <<>>,
     board0 |-> EmptyBoard, pool0 |-> <<>>,
     players0 |-> [human |-> <<>>, computer |-> <<>>]]

(***************************************************************************)
(* SpecBoard: a fresh Board and up to MaxCalls place_word calls.           *)
(***************************************************************************)
InitBoard ==
    /\ board = EmptyBoard
    /\ pool = <<>>
    /\ players = [human |-> <<>>, computer |-> <<>>]
    /\ pc = "BOARD"
    /\ last = NoCall
    /\ returned = <<>>
    /\ steps = 0
    /\ covered = TRUE

\* one place_word call by the code that owns the Board
PlaceWord(word, start, direction) ==
    /\ pc = "BOARD"
    /\ steps < MaxCalls
    /\ LET r == place_word(board, word, start, direction) IN
       /\ board' = r.board
       /\ last' = [NoCall EXCEPT !.op = "place_word", !.word = word,
                                 !.start = start, !.direction = direction,
                                 !.result = r.result, !.board0 = board]
       \* an uncaught IndexError ends the use of this Board
       /\ pc' = IF r.result = "IndexError" THEN "RAISED" ELSE "RETURNED"
    /\ steps' = steps + 1
    /\ UNCHANGED <<pool, players, returned, covered>>

\* the caller drops the arguments and the returned value before its next call
ReturnBoard ==
    /\ pc = "RETURNED"
    /\ last.op = "place_word"
    /\ steps < MaxCalls
    /\ pc' = "BOARD"
    /\ last' = NoCall
    /\ UNCHANGED <<board, pool, players, returned, steps, covered>>

NextBoard ==
    \/ /\ pc = "BOARD" /\ steps < MaxCalls
       /\ \E word \in Words, row \in Coords, col \in Coords,
             direction \in Direction :
             PlaceWord(word, <<row, col>>, direction)
    \/ ReturnBoard

SpecBoard == InitBoard /\ [][NextBoard]_vars

(***************************************************************************)
(* TileManager                                                             *)
(***************************************************************************)
\* the number of occurrences of letter l in the list p
Count(l, p) == Cardinality({i \in 1..Len(p) : p[i] = l})

\* the frequency table of initialize_tile_pool, scaled to the model alphabet
tile_distribution == [l \in Letters |-> TilesPerLetter]

\* the number of tiles of a game (98 in the program)
TotalTiles == TilesPerLetter * Cardinality(Letters)

\* initialize_tile_pool: the expanded table after random.shuffle, that is
\* any ordering of it
initialize_tile_pool ==
    {p \in [1..TotalTiles -> Letters] :
        \A l \in Letters : Count(l, p) = tile_distribution[l]}

\* the list comprehension of draw_tiles with k iterations left: each
\* iteration pops the last tile when the pool is not empty
RECURSIVE draw_loop(_, _, _)
draw_loop(p, drawn, k) ==
    IF k <= 0 THEN [drawn |-> drawn, pool |-> p]
    ELSE IF p # <<>>
      THEN draw_loop(SubSeq(p, 1, Len(p) - 1), Append(drawn, p[Len(p)]), k - 1)
      ELSE draw_loop(p, drawn, k - 1)

\* draw_tiles that hands out nothing when the pool holds fewer than num
draw_tiles_allornothing(p, num) ==
    IF Len(p) < num THEN [drawn |-> <<>>, pool |-> p]
    ELSE draw_loop(p, <<>>, num)

\* draw_tiles reading pool[-1] instead of popping it
draw_tiles_peek(p, num) ==
    [drawn |-> [i \in 1..(IF p = <<>> THEN 0 ELSE num) |-> p[Len(p)]],
     pool |-> p]

\* draw_tiles popping from the front of the pool: pool.pop(0)
draw_tiles_front(p, num) ==
    LET n == IF num < Len(p) THEN (IF num < 0 THEN 0 ELSE num) ELSE Len(p) IN
    [drawn |-> SubSeq(p, 1, n), pool |-> SubSeq(p, n + 1, Len(p))]

\* TileManager.draw_tiles: the tiles returned and the pool left
draw_tiles(p, num) == draw_loop(p, <<>>, num)

(***************************************************************************)
(* SpecPool: a fresh TileManager and up to MaxDraws draw_tiles calls.      *)
(***************************************************************************)
InitPool ==
    /\ board = EmptyBoard
    /\ pool \in initialize_tile_pool
    /\ players = [human |-> <<>>, computer |-> <<>>]
    /\ pc = "POOL"
    /\ last = NoCall
    /\ returned = <<>>
    /\ steps = 0
    /\ covered = TRUE

\* one draw_tiles call; returned accumulates every tile handed out
DrawTiles(num) ==
    /\ pc = "POOL"
    /\ steps < MaxDraws
    /\ LET d == draw_tiles(pool, num) IN
       /\ pool' = d.pool
       /\ returned' = returned \o d.drawn
       /\ last' = [NoCall EXCEPT !.op = "draw_tiles", !.num = num,
                                 !.result = "returned", !.drawn = d.drawn,
                                 !.pool0 = pool]
    /\ steps' = steps + 1
    /\ UNCHANGED <<board, players, pc, covered>>

NextPool == \E num \in 0..MaxDraw : DrawTiles(num)

SpecPool == InitPool /\ [][NextPool]_vars

(***************************************************************************)
(* GameState                                                               *)
(***************************************************************************)
\* GameState.__init__: self.players
NoHands == [human |-> <<>>, computer |-> <<>>]

\* a removal that drops every occurrence of x
RECURSIVE list_remove_all(_, _)
list_remove_all(h, x) ==
    IF h = <<>> THEN <<>>
    ELSE IF Head(h) = x THEN list_remove_all(Tail(h), x)
    ELSE <<Head(h)>> \o list_remove_all(Tail(h), x)

\* list.remove(x): drops the first occurrence of x (x is in the list)
list_remove(h, x) ==
    LET k == CHOOSE i \in 1..Len(h) : h[i] = x /\ \A j \in 1..(i - 1) : h[j] # x
    IN SubSeq(h, 1, k - 1) \o SubSeq(h, k + 1, Len(h))

\* the removal loop of player_turn, from letter i on:
\*   for letter in word: if letter in hand: hand.remove(letter)
RECURSIVE remove_letters(_, _, _)
remove_letters(h, word, i) ==
    IF i > Len(word) THEN h
    ELSE IF \E j \in 1..Len(h) : h[j] = word[i]
      THEN remove_letters(list_remove(h, word[i]), word, i + 1)
      ELSE remove_letters(h, word, i + 1)

\* the hand h holds every letter of word as often as word uses it
in_hand(word, h) == \A l \in Letters : Count(l, word) <= Count(l, h)

\* what the player can type for a letter, and str.upper() on it
TypedChars == {"a", "B"}
upper_char == [c \in TypedChars |-> IF c = "a" THEN "A" ELSE c]
TypedWords == UNION {[1..n -> TypedChars] : n \in 0..MaxWordLen}
\* the typed word after .strip().upper()
upper(w) == [i \in 1..Len(w) |-> upper_char[w[i]]]

\* what the player can type for the direction, and .strip().upper() on it
DirectionInputs == {"ACROSS", " across ", "DOWN", "UP"}
strip_upper(t) == IF t = " across " THEN "ACROSS" ELSE t

\* what the player can type at the start prompt, and .strip().lower() on it
StartInputs == {"yes", " YES ", "quit", "no"}
strip_lower(t) == IF t = " YES " THEN "yes" ELSE t

\* the numbers typed for row and column (the prompt says 1-15)
TypedCoords == 0..(size + 1)

\* draw_player_tiles dealing a hand to both players
draw_player_tiles_both(pl, p) ==
    LET d == draw_tiles(p, HandSize)
        e == draw_tiles(d.pool, HandSize)
    IN [players |-> [human |-> d.drawn, computer |-> e.drawn], pool |-> e.pool]

\* GameState.draw_player_tiles: players["human"] = draw_tiles(7)
draw_player_tiles(pl, p) ==
    LET d == draw_tiles(p, HandSize) IN
    [players |-> [pl EXCEPT !.human = d.drawn], pool |-> d.pool]

\* player_turn drawing the replacement tiles before it looks at the result
\* of place_word
player_turn_drawfirst(b, pl, p, word, row, col, direction_input) ==
    LET direction == IF direction_input = "ACROSS" THEN ACROSS ELSE DOWN
        r == place_word(b, word, <<row, col>>, direction)
    IN  IF word = <<>>
          THEN [result |-> "invalid", direction |-> direction,
                board |-> b, players |-> pl, pool |-> p, drawn |-> <<>>]
        ELSE IF r.result = "IndexError"
          THEN [result |-> "IndexError", direction |-> direction,
                board |-> b, players |-> pl, pool |-> p, drawn |-> <<>>]
        ELSE IF r.result = "True"
          THEN LET h == remove_letters(pl.human, word, 1)
                   d == draw_tiles(p, Len(word))
               IN [result |-> "placed", direction |-> direction,
                   board |-> r.board,
                   players |-> [pl EXCEPT !.human = h \o d.drawn],
                   pool |-> d.pool, drawn |-> d.drawn]
        ELSE LET d == draw_tiles(p, Len(word))
             IN [result |-> "invalid", direction |-> direction,
                 board |-> b,
                 players |-> [pl EXCEPT !.human = pl.human \o d.drawn],
                 pool |-> d.pool, drawn |-> d.drawn]

\* player_turn treating a pool that cannot replace every letter as an
\* invalid move
player_turn_needs_tiles(b, pl, p, word, row, col, direction_input) ==
    LET direction == IF direction_input = "ACROSS" THEN ACROSS ELSE DOWN
        r == place_word(b, word, <<row, col>>, direction)
    IN  IF word = <<>>
          THEN [result |-> "invalid", direction |-> direction,
                board |-> b, players |-> pl, pool |-> p, drawn |-> <<>>]
        ELSE IF r.result = "IndexError"
          THEN [result |-> "IndexError", direction |-> direction,
                board |-> b, players |-> pl, pool |-> p, drawn |-> <<>>]
        ELSE IF r.result = "True" /\ Len(p) >= Len(word)
          THEN LET h == remove_letters(pl.human, word, 1)
                   d == draw_tiles(p, Len(word))
               IN [result |-> "placed", direction |-> direction,
                   board |-> r.board,
                   players |-> [pl EXCEPT !.human = h \o d.drawn],
                   pool |-> d.pool, drawn |-> d.drawn]
        ELSE [result |-> "invalid", direction |-> direction,
              board |-> b, players |-> pl, pool |-> p, drawn |-> <<>>]

\* player_turn with the fallback reversed: everything but DOWN is ACROSS
player_turn_default_across(b, pl, p, word, row, col, direction_input) ==
    LET direction == IF direction_input = "DOWN" THEN DOWN ELSE ACROSS
        r == place_word(b, word, <<row, col>>, direction)
    IN  IF word = <<>>
          THEN [result |-> "invalid", direction |-> direction,
                board |-> b, players |-> pl, pool |-> p, drawn |-> <<>>]
        ELSE IF r.result = "IndexError"
          THEN [result |-> "IndexError", direction |-> direction,
                board |-> b, players |-> pl, pool |-> p, drawn |-> <<>>]
        ELSE IF r.result = "True"
          THEN LET h == remove_letters(pl.human, word, 1)
                   d == draw_tiles(p, Len(word))
               IN [result |-> "placed", direction |-> direction,
                   board |-> r.board,
                   players |-> [pl EXCEPT !.human = h \o d.drawn],
                   pool |-> d.pool, drawn |-> d.drawn]
        ELSE [result |-> "invalid", direction |-> direction,
              board |-> b, players |-> pl, pool |-> p, drawn |-> <<>>]

\* player_turn drawing one tile more than the word is long
player_turn_overdraw(b, pl, p, word, row, col, direction_input) ==
    LET direction == IF direction_input = "ACROSS" THEN ACROSS ELSE DOWN
        r == place_word(b, word, <<row, col>>, direction)
    IN  IF word = <<>>
          THEN [result |-> "invalid", direction |-> direction,
                board |-> b, players |-> pl, pool |-> p, drawn |-> <<>>]
        ELSE IF r.result = "IndexError"
          THEN [result |-> "IndexError", direction |-> direction,
                board |-> b, players |-> pl, pool |-> p, drawn |-> <<>>]
        ELSE IF r.result = "True"
          THEN LET h == remove_letters(pl.human, word, 1)
                   d == draw_tiles(p, Len(word) + 1)
               IN [result |-> "placed", direction |-> direction,
                   board |-> r.board,
                   players |-> [pl EXCEPT !.human = h \o d.drawn],
                   pool |-> d.pool, drawn |-> d.drawn]
        ELSE [result |-> "invalid", direction |-> direction,
              board |-> b, players |-> pl, pool |-> p, drawn |-> <<>>]

\* the body of player_turn after the four inputs are read: the outcome
\* ("placed", "invalid" or an uncaught "IndexError") and the state it leaves
player_turn(b, pl, p, word, row, col, direction_input) ==
    LET direction == IF direction_input = "ACROSS" THEN ACROSS ELSE DOWN
        r == place_word(b, word, <<row, col>>, direction)
    IN  IF word = <<>>
          THEN [result |-> "invalid", direction |-> direction,
                board |-> b, players |-> pl, pool |-> p, drawn |-> <<>>]
        ELSE IF r.result = "IndexError"
          THEN [result |-> "IndexError", direction |-> direction,
                board |-> b, players |-> pl, pool |-> p, drawn |-> <<>>]
        ELSE IF r.result = "True"
          THEN LET h == remove_letters(pl.human, word, 1)
                   d == draw_tiles(p, Len(word))
               IN [result |-> "placed", direction |-> direction,
                   board |-> r.board,
                   players |-> [pl EXCEPT !.human = h \o d.drawn],
                   pool |-> d.pool, drawn |-> d.drawn]
        ELSE [result |-> "invalid", direction |-> direction,
              board |-> b, players |-> pl, pool |-> p, drawn |-> <<>>]

(***************************************************************************)
(* Spec: game = GameState(); game.start_game()                             *)
(***************************************************************************)
\* a constructor that deals the first hand at once
Init_dealt ==
    /\ board = EmptyBoard
    /\ \E p \in initialize_tile_pool :
          LET d == draw_player_tiles(NoHands, p) IN
          pool = d.pool /\ players = d.players
    /\ pc = "AWAITING_START"
    /\ last = NoCall
    /\ returned = <<>>
    /\ steps = 0
    /\ covered = TRUE

Init ==
    /\ board = EmptyBoard
    /\ pool \in initialize_tile_pool
    /\ players = NoHands
    /\ pc = "AWAITING_START"
    /\ last = NoCall
    /\ returned = <<>>
    /\ steps = 0
    /\ covered = TRUE

\* one round of the loop of start_game
StartGame(user_input) ==
    /\ pc = "AWAITING_START"
    /\ LET t == strip_lower(user_input) IN
       \/ /\ t = "yes"
          \* game_loop: draw_player_tiles, then the turn cycle
          /\ LET d == draw_player_tiles(players, pool) IN
             /\ players' = d.players
             /\ pool' = d.pool
          /\ pc' = "IN_TURN"
          /\ UNCHANGED <<board, last, returned, steps, covered>>
       \/ /\ t = "quit"
          /\ pc' = "EXITED"
          /\ UNCHANGED <<board, pool, players, last, returned, steps, covered>>
       \/ /\ t \notin {"yes", "quit"}
          /\ UNCHANGED vars

\* player_turn: the four inputs are read, the move is applied or rejected
PlayerTurn(typed_word, typed_row, typed_col, typed_direction) ==
    /\ pc = "IN_TURN"
    /\ steps < MaxTurns
    /\ LET word == upper(typed_word)
           row == typed_row - 1
           col == typed_col - 1
           direction_input == strip_upper(typed_direction)
           t == player_turn(board, players, pool, word, row, col, direction_input)
       IN /\ board' = t.board
          /\ players' = t.players
          /\ pool' = t.pool
          /\ last' = [NoCall EXCEPT !.op = "player_turn", !.word = word,
                                    !.start = <<row, col>>,
                                    !.direction = t.direction,
                                    !.token = typed_direction,
                                    !.num = Len(word),
                                    !.result = t.result, !.drawn = t.drawn,
                                    !.board0 = board, !.pool0 = pool,
                                    !.players0 = players]
          \* nothing catches the IndexError: the program ends
          /\ pc' = IF t.result = "IndexError" THEN "CRASHED" ELSE "TURN_DONE"
          \* covered: every move placed so far played letters the hand held
          /\ covered' = (covered /\ (t.result = "placed" => in_hand(word, players.human)))
    /\ steps' = steps + 1
    /\ UNCHANGED returned

\* game_loop after player_turn returned: display_state, and the next round
\* asks the same player again; the locals of the finished turn are gone
DisplayState ==
    /\ pc = "TURN_DONE"
    /\ steps < MaxTurns
    /\ pc' = "IN_TURN"
    /\ last' = NoCall
    /\ UNCHANGED <<board, pool, players, returned, steps, covered>>

Next ==
    \/ \E user_input \in StartInputs : StartGame(user_input)
    \/ /\ pc = "IN_TURN" /\ steps < MaxTurns
       /\ \E typed_word \in TypedWords, typed_row \in TypedCoords,
             typed_col \in TypedCoords, typed_direction \in DirectionInputs :
             PlayerTurn(typed_word, typed_row, typed_col, typed_direction)
    \/ DisplayState

Spec == Init /\ [][Next]_vars

(***************************************************************************)
(* Properties.  They read the board directly, not through the Board's      *)
(* own accessors.                                                          *)
(***************************************************************************)
Cells == Rows \X Rows
Cell(b, pos) == b[pos[1]][pos[2]]
OnBoard(pos) == pos[1] \in Rows /\ pos[2] \in Rows
Occupied(b) == {pos \in Cells : Cell(b, pos) # Empty}
Min(a, b) == IF a < b THEN a ELSE b

\* the last operation was a place_word call (it returned or it raised)
Placed == last.op = "place_word"
\* the indices of the letters of the word of the last call
SpanIdx == 1..Len(last.word)
\* the cell the i-th letter (i = 1, 2, ...) of the last call is aimed at
SpanAt(i) ==
    IF last.direction = ACROSS
      THEN <<last.start[1], last.start[2] + (i - 1)>>
      ELSE <<last.start[1] + (i - 1), last.start[2]>>
\* the span of the last call starts on the board and stays on it
SpanOnBoard == OnBoard(last.start) /\ \A i \in SpanIdx : OnBoard(SpanAt(i))
\* the Python list element the i-th letter of the last call lands on
LandsOn(i) == <<PyIndex(SpanAt(i)[1]), PyIndex(SpanAt(i)[2])>>
\* the last operation was a draw_tiles call
Drew == last.op = "draw_tiles"

\* C1: after draw_player_tiles and any sequence of player_turn moves, the
\* tiles in the pool, in all hands and on the board add up to the initial
\* total of the pool.
C1_TileConservation ==
    pc \in {"IN_TURN", "TURN_DONE", "CRASHED"} =>
        Len(pool) + Len(players.human) + Len(players.computer)
            + Cardinality(Occupied(board)) = TotalTiles

\* C2: when place_word returns False, every cell of the board holds the
\* value it held before the call.
C2_AtomicRejection ==
    (Placed /\ last.result = "False") => board = last.board0

\* C2 witness: a two-letter word is rejected for its second letter while its
\* first letter was aimed at an empty cell of the board.
C2_Witness ==
    /\ Placed /\ last.result = "False"
    /\ Len(last.word) = 2 /\ SpanOnBoard
    /\ Cell(last.board0, SpanAt(1)) = Empty
    /\ Cell(last.board0, SpanAt(2)) \notin {Empty, last.word[2]}
    /\ board = last.board0

\* C3: when some cell of the span lies outside the board (a negative start
\* row or column included), place_word returns False and the board is
\* unchanged.
C3_OutOfBoundsRejection ==
    (Placed /\ \E i \in SpanIdx : ~OnBoard(SpanAt(i))) =>
        (last.result = "False" /\ board = last.board0)

\* C4: place_word(word, (row, C), ACROSS) with C + len(word) > size returns
\* False and leaves the board unchanged, for every row; the same for DOWN
\* with start row R and R + len(word) > size.
C4_FarEdgeRejection ==
    (Placed /\ \/ (last.direction = ACROSS
                    /\ last.start[2] + Len(last.word) > size)
               \/ (last.direction = DOWN
                    /\ last.start[1] + Len(last.word) > size)) =>
        (last.result = "False" /\ board = last.board0)

\* C4 witness: a word starting on a board that already holds a letter runs
\* past the bottom edge and is rejected.
C4_Witness ==
    /\ Placed /\ last.direction = DOWN
    /\ OnBoard(last.start)
    /\ last.start[1] + Len(last.word) > size
    /\ Occupied(last.board0) # {}
    /\ last.result = "False" /\ board = last.board0

\* C5: when the span is on the board and some span cell holds a letter
\* other than the corresponding letter of the word, place_word returns False
\* and the board is unchanged.
C5_ConflictRejection ==
    (Placed /\ SpanOnBoard
       /\ \E i \in SpanIdx :
            Cell(last.board0, SpanAt(i)) \notin {Empty, last.word[i]}) =>
        (last.result = "False" /\ board = last.board0)

\* C5 witness: a word is laid over a different word at the same start and
\* is rejected.
C5_Witness ==
    /\ Placed /\ SpanOnBoard /\ Len(last.word) >= 1
    /\ Cell(last.board0, SpanAt(1)) \notin {Empty, last.word[1]}
    /\ last.result = "False" /\ board = last.board0

\* C6: when the span is on the board and every occupied span cell already
\* equals the corresponding letter, place_word returns True, the i-th span
\* cell (by column for ACROSS, by row for DOWN) then holds the i-th letter,
\* and every cell outside the span is unchanged.
C6_PlacementPostState ==
    (Placed /\ SpanOnBoard
       /\ \A i \in SpanIdx :
            Cell(last.board0, SpanAt(i)) \in {Empty, last.word[i]}) =>
        /\ last.result = "True"
        /\ \A i \in SpanIdx : Cell(board, SpanAt(i)) = last.word[i]
        /\ \A pos \in Cells \ {SpanAt(i) : i \in SpanIdx} :
              Cell(board, pos) = Cell(last.board0, pos)

\* C6 witness: a two-letter word is accepted on a board holding letters
\* outside its span, one span cell empty and one already matching.
C6_Witness ==
    /\ Placed /\ SpanOnBoard /\ Len(last.word) = 2
    /\ last.result = "True"
    /\ \E i, j \in SpanIdx :
          /\ Cell(last.board0, SpanAt(i)) = Empty
          /\ Cell(last.board0, SpanAt(j)) = last.word[j]
    /\ Occupied(last.board0) \ {SpanAt(i) : i \in SpanIdx} # {}
    /\ \A i \in SpanIdx : Cell(board, SpanAt(i)) = last.word[i]

\* C7: after a place_word call that returns True, the number of non-empty
\* cells has grown by exactly the number of letters of the word that landed
\* on cells that were empty before the call.
C7_PlacementConservation ==
    (Placed /\ last.result = "True") =>
        Cardinality(Occupied(board)) - Cardinality(Occupied(last.board0))
          = Cardinality({i \in SpanIdx : Cell(last.board0, LandsOn(i)) = Empty})

\* C7 witness: an accepted two-letter word adds one tile to a board because
\* its other letter was already there.
C7_Witness ==
    /\ Placed /\ last.result = "True" /\ Len(last.word) = 2
    /\ Cardinality({i \in SpanIdx : Cell(last.board0, LandsOn(i)) = Empty}) = 1
    /\ Cardinality(Occupied(board)) = Cardinality(Occupied(last.board0)) + 1

\* C8: after a place_word call that returned True, the same call made again
\* returns True and leaves the board as it is.
C8_Idempotence ==
    (Placed /\ last.result = "True") =>
        LET again == place_word(board, last.word, last.start, last.direction)
        IN again.result = "True" /\ again.board = board

\* C8 witness: a call that returned True and changed the board.
C8_Witness ==
    /\ Placed /\ last.result = "True"
    /\ Len(last.word) >= 1
    /\ board # last.board0

\* C9: draw_tiles(n) on a pool of k tiles returns min(n, k) tiles and leaves
\* k - min(n, k) tiles; with k < n the pool is left empty, and a draw on an
\* empty pool returns the empty list.
C9_DrawResult ==
    Drew =>
        /\ Len(last.drawn) = Min(last.num, Len(last.pool0))
        /\ Len(pool) = Len(last.pool0) - Min(last.num, Len(last.pool0))
        /\ (Len(last.pool0) < last.num => pool = <<>>)
        /\ (last.pool0 = <<>> => last.drawn = <<>>)

\* C9 witness: a draw of more tiles than the non-empty pool holds returned
\* all of them and emptied the pool.
C9_Witness ==
    /\ Drew
    /\ 0 < Len(last.pool0) /\ Len(last.pool0) < last.num
    /\ Len(last.drawn) = Len(last.pool0)
    /\ pool = <<>>

\* C10: after every sequence of draw_tiles calls, the tiles left in the pool
\* and the tiles returned so far add up to the initial total, letter by
\* letter.
C10_DrawConservation ==
    pc = "POOL" =>
        /\ Len(pool) + Len(returned) = TotalTiles
        /\ \A l \in Letters :
              Count(l, pool) + Count(l, returned) = tile_distribution[l]

\* C10 witness: two draws have been made, tiles were returned and tiles are
\* left.
C10_Witness ==
    /\ pc = "POOL" /\ steps >= 2
    /\ Len(returned) >= 2 /\ pool # <<>>
    /\ last.drawn # <<>>

(***************************************************************************)
(* Properties of the game (Spec) and of the permanence of tiles.           *)
(***************************************************************************)
\* the last operation was a move handed to player_turn
Played == last.op = "player_turn"
\* the human hand before and after the last move
Hand0 == last.players0.human
Hand == players.human
\* the letters of the last word the hand before the move could give up
RECURSIVE SumOver(_, _)
SumOver(S, f) ==
    IF S = {} THEN 0
    ELSE LET x == CHOOSE y \in S : TRUE IN f[x] + SumOver(S \ {x}, f)
Removable ==
    SumOver(Letters,
            [l \in Letters |-> Min(Count(l, last.word), Count(l, Hand0))])
\* the last |drawn| tiles of the pool before the move, last tile first
TopOfPool0(n) == [i \in 1..n |-> last.pool0[Len(last.pool0) - i + 1]]
\* s is t with some elements left out, the order kept
IsSubsequence(s, t) ==
    \E f \in [1..Len(s) -> 1..Len(t)] :
        /\ \A i \in 1..Len(s) : s[i] = t[f[i]]
        /\ \A i, j \in 1..Len(s) : i < j => f[i] < f[j]
IsPrefix(s, t) == Len(s) <= Len(t) /\ s = SubSeq(t, 1, Len(s))
\* the board takes the last word: it is not empty, its span is on the board
\* and every occupied span cell already holds the letter aimed at it
BoardTakes ==
    /\ last.word # <<>>
    /\ SpanOnBoard
    /\ \A i \in SpanIdx : Cell(last.board0, SpanAt(i)) \in {Empty, last.word[i]}

\* C11: whenever a player_turn move is rejected (place_word returned False,
\* or the word is empty), every hand, the pool and the board are what they
\* were before the move.
C11_FailedPlayFrame ==
    (Played /\ last.result = "invalid") =>
        /\ players = last.players0
        /\ pool = last.pool0
        /\ board = last.board0

\* C11 witness: a non-empty word is rejected by a board that holds a
\* different letter, while the pool still has tiles.
C11_Witness ==
    /\ Played /\ last.result = "invalid"
    /\ last.word # <<>> /\ last.pool0 # <<>>
    /\ SpanOnBoard
    /\ \E i \in SpanIdx : Cell(last.board0, SpanAt(i)) \notin {Empty, last.word[i]}
    /\ players = last.players0 /\ pool = last.pool0

\* C12: when a move is accepted and the hand holds the letters of the word
\* often enough, the hand afterwards is the hand before with one instance of
\* each letter of the word removed, followed by the tiles draw_tiles returned;
\* the pool has shrunk by min(len(word), pool size before).
C12_HandUpdate ==
    (Played /\ last.result = "placed"
       /\ \A l \in Letters : Count(l, last.word) <= Count(l, Hand0)) =>
        LET keep == Len(Hand0) - Len(last.word)
            n == Min(Len(last.word), Len(last.pool0))
            kept == SubSeq(Hand, 1, keep)
        IN /\ Len(Hand) = keep + n
           /\ IsSubsequence(kept, Hand0)
           /\ \A l \in Letters :
                 Count(l, kept) = Count(l, Hand0) - Count(l, last.word)
           /\ SubSeq(Hand, keep + 1, Len(Hand)) = last.drawn
           /\ last.drawn = TopOfPool0(n)
           /\ pool = SubSeq(last.pool0, 1, Len(last.pool0) - n)
           /\ players.computer = last.players0.computer

\* C12 witness: an accepted move played one letter of a hand that holds it
\* twice and drew its replacement.
C12_Witness ==
    /\ Played /\ last.result = "placed"
    /\ Len(last.word) = 1
    /\ Count(last.word[1], Hand0) = 2
    /\ Len(last.drawn) = 1
    /\ Len(Hand) = Len(Hand0)

\* C13: after every move of the turn cycle, whatever the word, the start
\* coordinates, the direction and the pool, the move is applied or rejected
\* and the coordinator goes on to collect another move.
C13_NoFatalState ==
    Played => (last.result \in {"placed", "invalid"} /\ pc = "TURN_DONE")

\* C14 as stated: before the game starts the board is empty, every hand is
\* empty and the pool is full, and AWAITING_START is only ever left for
\* IN_TURN.
C14_OnlyToInTurn ==
    /\ [](pc = "AWAITING_START" =>
            board = EmptyBoard /\ players = NoHands /\ Len(pool) = TotalTiles)
    /\ [][pc = "AWAITING_START" => pc' \in {"AWAITING_START", "IN_TURN"}]_vars

\* C14 amended: before the game starts the board is empty, every hand is
\* empty and the pool is full; AWAITING_START is left for IN_TURN on "yes"
\* or the program ends on "quit".
C14_AwaitingStart ==
    /\ [](pc = "AWAITING_START" =>
            board = EmptyBoard /\ players = NoHands /\ Len(pool) = TotalTiles)
    /\ [][pc = "AWAITING_START" =>
            pc' \in {"AWAITING_START", "IN_TURN", "EXITED"}]_vars

\* C14 witness: the program was left with "quit" before any game started.
C14_Witness ==
    /\ pc = "EXITED"
    /\ board = EmptyBoard /\ players = NoHands /\ Len(pool) = TotalTiles

\* C15: across every step of a game the pool after the step is a prefix of
\* the pool before it.
C15_PoolPrefix == [][IsPrefix(pool', pool)]_vars

\* C15 witness: an accepted move took tiles from the pool and left some.
C15_Witness ==
    /\ Played /\ last.result = "placed"
    /\ Len(pool) < Len(last.pool0) /\ pool # <<>>
    /\ IsPrefix(pool, last.pool0)

\* C16: a move the board takes is reported as placed whatever the pool
\* holds; with k < len(word) tiles in the pool the hand receives exactly
\* those k tiles and the pool is empty, and with an empty pool the hand
\* receives nothing.
C16_PoolExhaustion ==
    (Played /\ BoardTakes) =>
        /\ last.result = "placed"
        /\ Len(last.pool0) < Len(last.word) =>
              /\ pool = <<>>
              /\ last.drawn = TopOfPool0(Len(last.pool0))
              /\ Len(Hand) = Len(Hand0) - Removable + Len(last.pool0)
              /\ SubSeq(Hand, Len(Hand) - Len(last.pool0) + 1, Len(Hand))
                    = last.drawn
        /\ last.pool0 = <<>> =>
              /\ last.drawn = <<>>
              /\ Len(Hand) = Len(Hand0) - Removable

\* C16 witness: a two-letter word was placed when the pool held one tile.
C16_Witness ==
    /\ Played /\ BoardTakes /\ last.result = "placed"
    /\ Len(last.word) = 2 /\ Len(last.pool0) = 1
    /\ pool = <<>> /\ Len(last.drawn) = 1

\* C17: draw_player_tiles on a fresh game moves min(7, pool size) tiles from
\* the pool into the human hand; the board and the other hand are unchanged.
C17_Initialize ==
    (pc = "IN_TURN" /\ steps = 0) =>
        /\ Len(Hand) = Min(HandSize, TotalTiles)
        /\ Len(pool) = TotalTiles - Min(HandSize, TotalTiles)
        /\ \A l \in Letters :
              Count(l, pool) + Count(l, Hand) = tile_distribution[l]
        /\ players.computer = <<>>
        /\ board = EmptyBoard

\* C17 witness: the game was started and the first hand is dealt.
C17_Witness ==
    /\ pc = "IN_TURN" /\ steps = 0
    /\ Len(Hand) = HandSize /\ Len(pool) = TotalTiles - HandSize

\* the direction the claim gives a token: ACROSS for the ACROSS token (as
\* compared by the turn handler, after strip().upper()), DOWN for the rest
ClaimedDirection ==
    IF strip_upper(last.token) = "ACROSS" THEN ACROSS ELSE DOWN
ClaimedAt(i) ==
    IF ClaimedDirection = ACROSS
      THEN <<last.start[1], last.start[2] + (i - 1)>>
      ELSE <<last.start[1] + (i - 1), last.start[2]>>

\* C18: the move is played ACROSS iff the token is the ACROSS token and
\* DOWN for every other token; a word that fits the board in that direction
\* is placed along it, whatever the token.
C18_DirectionFallback ==
    Played =>
        /\ last.direction = ClaimedDirection
        /\ (/\ last.word # <<>>
            /\ OnBoard(last.start)
            /\ \A i \in SpanIdx :
                  /\ OnBoard(ClaimedAt(i))
                  /\ Cell(last.board0, ClaimedAt(i)) \in {Empty, last.word[i]})
           => /\ last.result = "placed"
              /\ \A i \in SpanIdx : Cell(board, ClaimedAt(i)) = last.word[i]
              /\ \A pos \in Cells \ {ClaimedAt(i) : i \in SpanIdx} :
                    Cell(board, pos) = Cell(last.board0, pos)

\* C18 witness: a two-letter word typed with an unknown direction token was
\* placed downwards.
C18_Witness ==
    /\ Played /\ last.result = "placed"
    /\ last.token = "UP" /\ Len(last.word) = 2
    /\ OnBoard(last.start)
    /\ Cell(board, <<last.start[1] + 1, last.start[2]>>) = last.word[2]
    /\ Cell(last.board0, <<last.start[1] + 1, last.start[2]>>) = Empty

\* C19: in any sequence of place_word calls a cell that holds a letter
\* holds the same letter in every later state, and is_first_turn, once
\* False, stays False.
C19_TilesPermanent ==
    [][/\ \A pos \in Cells :
             Cell(board, pos) # Empty => Cell(board', pos) = Cell(board, pos)
       /\ ~is_first_turn(board) => ~is_first_turn(board')]_vars

\* C19 witness: a call on a board that already held a tile changed the
\* board and left that tile in place.
C19_Witness ==
    /\ Placed /\ last.result = "True"
    /\ Occupied(last.board0) # {}
    /\ board # last.board0
    /\ \A pos \in Occupied(last.board0) : Cell(board, pos) = Cell(last.board0, pos)

\* C20: when the game started with draw_player_tiles and every placed move
\* played letters the hand held, the human hand never holds more than the
\* first deal, and holds exactly that many after a placed move whenever the
\* pool held at least len(word) tiles before it.
C20_HandBound ==
    (pc \in {"IN_TURN", "TURN_DONE", "CRASHED"} /\ covered) =>
        /\ Len(Hand) <= HandSize
        /\ (Played /\ last.result = "placed"
              /\ Len(last.pool0) >= Len(last.word)) => Len(Hand) = HandSize

\* C20 witness: the second of two placed moves, both played from the hand,
\* left a full hand.
C20_Witness ==
    /\ covered /\ steps = 2
    /\ Played /\ last.result = "placed"
    /\ Len(last.pool0) >= Len(last.word)
    /\ Len(Hand) = HandSize
    /\ Cardinality(Occupied(last.board0)) >= 1

====
